---- MODULE Spec2Model ----
(***************************************************************************)
(* Swiss-tournament pairing and scoring engine of ioezgamer/chess.         *)
(*                                                                         *)
(* The repository holds four revisions of the same Express application;    *)
(* each has its own generate-pairings handler and its own set-result       *)
(* handler.  The variable app says which revision is deployed:             *)
(*   "serverless"  src/unnamed/part_000          lines  23-388  (router)   *)
(*   "express"     src/unnamed/part_000          lines 391-716  (app)      *)
(*   "auth"        src/netlify/functions/api.js  lines   1-270  (router)   *)
(*   "netlify"     src/netlify/functions/api.js  lines 273-623  (router)   *)
(*                                                                         *)
(* Players are 1..roster; player p carries the p-th name of the roster in  *)
(* lexicographic order.  points are stored in half points (2 = one point), *)
(* so that the NUMERIC column stays an integer.  A pairing's id is its     *)
(* index in pairings (the serial primary key).  The rows of pairings hold  *)
(* the players 1..roster; player_ids gives the serial primary key of each, *)
(* which only the first router of api.js reads as text.                    *)
(***************************************************************************)
EXTENDS Integers, Sequences, FiniteSets, TLC

\* ---- bounds of the model ------------------------------------------------
MaxPlayers == 5
MaxRounds == 2
MaxResultCalls == 2
\* the runs of SpecFault, where storage operations can fail
FaultRounds == 2
FaultResultCalls == 1
\* the runs of SpecRace, where two requests are served at the same time
RaceRounds == 2
RaceResultCalls == 2
\* the longer runs of SpecCycle: a full bye cycle of five players and one more round
CycleRounds == 6
CycleResultCalls == 2
\* the runs of SpecRows, where the storage returns the player rows in any order
RowsPlayers == 3
RowsRounds == 2
RowsResultCalls == 1
\* the runs of SpecExport, where the standings are exported
ExportPlayers == 3
ExportRounds == 2
ExportResultCalls == 1
\* the runs of SpecLocks, where two result requests wait for each other's rows
LockPlayers == 3
LockRounds == 2
LockResultCalls == 3
\* the runs of SpecIds, where the players' keys have one or two digits
IdPlayers == 5
IdRounds == 2
IdResultCalls == 1
\* the runs of SpecByes: three players, a bye for each and one more round
ByePlayers == 3
ByeRounds == 4
ByeResultCalls == 2

\* ---- values of the database columns -------------------------------------
\* SQL NULL in an id column (black_id of a bye)
NULL == 0
\* SQL NULL in pairings.result (a pending game)
NoResult == "null"
WHITE_WIN == "1-0"
BLACK_WIN == "0-1"
DRAW == "0.5-0.5"
\* a request body whose result is none of the three strings
BadResult == "2-0"
ValidResults == {WHITE_WIN, BLACK_WIN, DRAW}
RequestResults == ValidResults \cup {BadResult}

Apps == {"serverless", "express", "auth", "netlify"}

\* the keys a player of SpecIds can have
PlayerIds == {1, 2, 11, 12, 13}

\* generated and calls count the requests served by the two handlers; last
\* describes the latest request: the handler, its HTTP status, the id of the
\* addressed pairing, the result it held before, the result asked for, and,
\* for a request that ended in the catch block, the number of writes it had
\* made when a storage operation failed, and for an export request the
\* standings it sent
\* inflight holds, for each of two clients, the request whose handler has
\* made its reads and not yet its writes (only SpecRace and SpecLocks have
\* such requests), and in SpecLocks the players rows its UPDATEs have still
\* to touch (todo) and the rows its transaction has locked (held)
\* player_ids holds players.id, the serial primary key of every player
VARIABLES app, roster, player_ids, points, had_bye, pairings, generated, calls, last, inflight
vars == <<app, roster, player_ids, points, had_bye, pairings, generated, calls, last, inflight>>

Clients == {"a", "b"}
\* no request of the client is being served
Idle ==
    [op |-> "none", id |-> NULL, result |-> NoResult,
     row |-> [round_number |-> 0, white_id |-> NULL, black_id |-> NULL, result |-> NoResult],
     snapshot |-> [points |-> <<>>, had_bye |-> <<>>, pairings |-> <<>>],
     todo |-> <<>>, held |-> {}]

Generated(status) ==
    [op |-> "generate", status |-> status, id |-> NULL, old |-> NoResult, result |-> NoResult,
     step |-> 0, standings |-> <<>>]
Target(prs, id) ==
    IF id \notin DOMAIN prs THEN "none" ELSE IF prs[id].black_id = NULL THEN "bye" ELSE "game"
Updated(prs, id, result, status) ==
    [op |-> "setResult", status |-> status, id |-> id,
     old |-> IF id \in DOMAIN prs THEN prs[id].result ELSE NoResult,
     result |-> result, step |-> 0, standings |-> <<>>]

players == 1..roster

\* players.name: the p-th name in lexicographic order
name(p) == p

Min(S) == CHOOSE x \in S : \A y \in S : x <= y
Max(S) == CHOOSE x \in S : \A y \in S : x >= y
Range(s) == {s[i] : i \in 1..Len(s)}

\* ---- ordering ------------------------------------------------------------
\* the comparator  b.points - a.points || a.name.localeCompare(b.name)  is
\* negative, equally  ORDER BY points DESC, name ASC  puts a first
Before(pts, a, b) == pts[a] > pts[b] \/ (pts[a] = pts[b] /\ name(a) < name(b))

\* the rows of S in the order  points DESC, name ASC: names are unique in a
\* tournament (the INSERT of a second player of the same name fails with
\* 23505), so this is the one array that the sort of part_000:227 and the
\* ORDER BY of part_000:572 and api.js:454 can leave
SortPlayers(S, pts) ==
    [k \in 1..Cardinality(S) |->
        CHOOSE p \in S : Cardinality({q \in S : Before(pts, q, p)}) = k - 1]

\* faulty variant of SortRows: the comparator looks at the points only
SortRowsByPointsOnly(stored, pts) ==
    [k \in 1..Len(stored) |->
        stored[CHOOSE i \in 1..Len(stored) :
            Cardinality({j \in 1..Len(stored) :
                pts[stored[j]] > pts[stored[i]]
                \/ (pts[stored[j]] = pts[stored[i]] /\ j < i)}) = k - 1]]

\* players.sort((a, b) => b.points - a.points || a.name.localeCompare(b.name))
\* on the rows in the order the storage returned them: the sort is stable,
\* rows that compare equal keep their order
SortRows(stored, pts) ==
    [k \in 1..Len(stored) |->
        stored[CHOOSE i \in 1..Len(stored) :
            Cardinality({j \in 1..Len(stored) :
                Before(pts, stored[j], stored[i])
                \/ (~Before(pts, stored[i], stored[j]) /\ j < i)}) = k - 1]]

\* Array.prototype.sort((a, b) => a.points - b.points): stable, ascending
SortByPointsAsc(s, pts) ==
    [k \in 1..Len(s) |->
        s[CHOOSE i \in 1..Len(s) :
            Cardinality({j \in 1..Len(s) :
                pts[s[j]] < pts[s[i]] \/ (pts[s[j]] = pts[s[i]] /\ j < i)}) = k - 1]]

\* Array.prototype.filter
Filter(s, keep) == SelectSeq(s, LAMBDA p : p \in keep)

\* ---- rows ----------------------------------------------------------------
Pairing(r, w, b, res) == [round_number |-> r, white_id |-> w, black_id |-> b, result |-> res]

\* UPDATE players SET points = points + d WHERE id = p  (no row when p is NULL)
AddPoints(pts, p, d) == IF p \in DOMAIN pts THEN [pts EXCEPT ![p] = @ + d] ELSE pts

\* faulty variant of NextRound: the rows are counted
NextRoundByCount(prs) == Len(prs) + 1

\* MAX(round_number) + 1, or 1 without pairings
NextRound(prs) == IF Len(prs) > 0 THEN Max({prs[i].round_number : i \in 1..Len(prs)}) + 1 ELSE 1

\* faulty variant of InsertAll: every row is inserted with the result 1-0
InsertAllDecided(prs, r, newPairings) ==
    prs \o [k \in 1..Len(newPairings) |->
              Pairing(r, newPairings[k].white_id, newPairings[k].black_id, WHITE_WIN)]

\* INSERT INTO pairings ... for every entry of newPairings, in order
InsertAll(prs, r, newPairings) ==
    prs \o [k \in 1..Len(newPairings) |->
              Pairing(r, newPairings[k].white_id, newPairings[k].black_id, newPairings[k].result)]

\* ==== "serverless": part_000 router ========================================
\* allPairings.some(p => (white = p1 && black = p2) || (white = p2 && black = p1))
havePlayed(allPairings, player1, player2) ==
    \E i \in 1..Len(allPairings) :
        \/ allPairings[i].white_id = player1 /\ allPairings[i].black_id = player2
        \/ allPairings[i].white_id = player2 /\ allPairings[i].black_id = player1

\* the bye recipient of part_000:233-237 and the order availablePlayers is
\* left in (the fallback sorts availablePlayers in place)
ByeServerless(availablePlayers, pts, bye) ==
    LET noBye == SortByPointsAsc(Filter(availablePlayers, {p \in Range(availablePlayers) : ~bye[p]}), pts)
        resorted == SortByPointsAsc(availablePlayers, pts)
    IN  IF Len(noBye) > 0
        THEN [playerToBye |-> noBye[1], availablePlayers |-> availablePlayers]
        ELSE [playerToBye |-> resorted[1], availablePlayers |-> resorted]

\* faulty variant of PairServerless: the first unpaired player is taken as
\* opponent without looking at the history
RECURSIVE PairServerlessFirstFree(_, _, _, _, _)
PairServerlessFirstFree(availablePlayers, i, pairedIds, newPairings, allPairings) ==
    IF i > Len(availablePlayers) THEN newPairings
    ELSE LET player1 == availablePlayers[i]
             free == {j \in 1..Len(availablePlayers) :
                        availablePlayers[j] # player1 /\ availablePlayers[j] \notin pairedIds}
             opponent == IF free # {} THEN availablePlayers[Min(free)] ELSE NULL
         IN  IF player1 \in pairedIds \/ opponent = NULL
             THEN PairServerlessFirstFree(availablePlayers, i + 1, pairedIds, newPairings, allPairings)
             ELSE PairServerlessFirstFree(availablePlayers, i + 1, pairedIds \cup {player1, opponent},
                                          Append(newPairings, Pairing(0, player1, opponent, NoResult)),
                                          allPairings)

\* the loop  for (const player1 of availablePlayers)  of part_000:245-271
RECURSIVE PairServerless(_, _, _, _, _)
PairServerless(availablePlayers, i, pairedIds, newPairings, allPairings) ==
    IF i > Len(availablePlayers) THEN newPairings
    ELSE LET player1 == availablePlayers[i]
             free == {j \in 1..Len(availablePlayers) :
                        availablePlayers[j] # player1 /\ availablePlayers[j] \notin pairedIds}
             fresh == {j \in free : ~havePlayed(allPairings, player1, availablePlayers[j])}
             opponent == IF fresh # {} THEN availablePlayers[Min(fresh)]
                         ELSE IF free # {} THEN availablePlayers[Min(free)]
                         ELSE NULL
         IN  IF player1 \in pairedIds \/ opponent = NULL
             THEN PairServerless(availablePlayers, i + 1, pairedIds, newPairings, allPairings)
             ELSE PairServerless(availablePlayers, i + 1, pairedIds \cup {player1, opponent},
                                 Append(newPairings, Pairing(0, player1, opponent, NoResult)),
                                 allPairings)

\* the handler body of part_000:208-290 on a roster of at least two, from
\* the array that players.sort of line 227 leaves
GenerateServerless(sorted, pts, bye, allPairings) ==
    LET odd == Len(sorted) % 2 # 0
        b == ByeServerless(sorted, pts, bye)
        byeRows == IF odd THEN <<Pairing(0, b.playerToBye, NULL, WHITE_WIN)>> ELSE <<>>
        availablePlayers == IF odd THEN Filter(b.availablePlayers, Range(sorted) \ {b.playerToBye})
                            ELSE sorted
    IN  [points |-> IF odd THEN AddPoints(pts, b.playerToBye, 2) ELSE pts,
         had_bye |-> IF odd THEN [bye EXCEPT ![b.playerToBye] = TRUE] ELSE bye,
         pairings |-> InsertAll(allPairings, NextRound(allPairings),
                                PairServerless(availablePlayers, 1, {}, byeRows, allPairings))]

\* router.post('/tournaments/:tournamentId/pairings/generate') of part_000
GenerateNextRoundServerless ==
    /\ app = "serverless"
    /\ generated' = generated + 1
    /\ UNCHANGED <<app, roster, player_ids, calls, inflight>>
    /\ IF roster < 2
       THEN /\ last' = Generated(400)
            /\ UNCHANGED <<points, had_bye, pairings>>
       ELSE LET g == GenerateServerless(SortPlayers(players, points), points, had_bye, pairings)
            IN  /\ points' = g.points
                /\ had_bye' = g.had_bye
                /\ pairings' = g.pairings
                /\ last' = Generated(201)

\* the points a stored result gave: <<white, black>> in half points
\* (if / else if chain of part_000:311-314 and 320-323)
PointsOf(res) ==
    IF res = WHITE_WIN THEN <<2, 0>>
    ELSE IF res = BLACK_WIN THEN <<0, 2>>
    ELSE IF res = DRAW THEN <<1, 1>>
    ELSE <<0, 0>>

\* part_000:309-317: two UPDATEs, each on its own row
RevertServerless(pts, pairing) ==
    IF pairing.result # NoResult
    THEN AddPoints(AddPoints(pts, pairing.white_id, -PointsOf(pairing.result)[1]),
                   pairing.black_id, -PointsOf(pairing.result)[2])
    ELSE pts

\* faulty variant of ApplyServerless: the new points go to the wrong colours
ApplyServerlessSwapped(pts, pairing, result) ==
    AddPoints(AddPoints(pts, pairing.white_id, PointsOf(result)[2]),
              pairing.black_id, PointsOf(result)[1])

\* part_000:319-326
ApplyServerless(pts, pairing, result) ==
    AddPoints(AddPoints(pts, pairing.white_id, PointsOf(result)[1]),
              pairing.black_id, PointsOf(result)[2])

\* the handler body of part_000:292-340: what it leaves committed, and its status
UpdateServerless(pts, prs, id, result) ==
    IF result \notin ValidResults THEN [points |-> pts, pairings |-> prs, status |-> 400]
    ELSE IF id \notin DOMAIN prs THEN [points |-> pts, pairings |-> prs, status |-> 500]
    ELSE [points |-> ApplyServerless(RevertServerless(pts, prs[id]), prs[id], result),
          pairings |-> [prs EXCEPT ![id].result = result],
          status |-> 200]

\* router.put('/pairings/:id') of part_000
SetResultServerless(id, result) ==
    /\ app = "serverless"
    /\ calls' = calls + 1
    /\ UNCHANGED <<app, roster, player_ids, had_bye, generated, inflight>>
    /\ LET u == UpdateServerless(points, pairings, id, result)
       IN  /\ points' = u.points
           /\ pairings' = u.pairings
           /\ last' = Updated(pairings, id, result, u.status)

\* ==== "express": part_000 app ==============================================
\* pastOpponents of part_000:576-582: only rows with both players count
pastOpponents(rows, p) ==
    {rows[i].black_id : i \in {k \in 1..Len(rows) :
        rows[k].white_id # NULL /\ rows[k].black_id # NULL /\ rows[k].white_id = p}}
    \cup
    {rows[i].white_id : i \in {k \in 1..Len(rows) :
        rows[k].white_id # NULL /\ rows[k].black_id # NULL /\ rows[k].black_id = p}}

\* faulty variant of ByeExpress: the test of has_had_bye is not negated
ByeExpressFlagInverted(sorted, bye) ==
    LET hadBye == {i \in 1..Len(sorted) : bye[sorted[i]]}
    IN  IF hadBye # {} THEN sorted[Max(hadBye)] ELSE sorted[Len(sorted)]

\* faulty variant of ByeExpress: the flags are not looked at
ByeExpressAlwaysLast(sorted, bye) == sorted[Len(sorted)]

\* players.slice().reverse().find(p => !p.has_had_bye) || players[players.length - 1]
ByeExpress(sorted, bye) ==
    LET noBye == {i \in 1..Len(sorted) : ~bye[sorted[i]]}
    IN  IF noBye # {} THEN sorted[Max(noBye)] ELSE sorted[Len(sorted)]

\* the loop over playersToPair of part_000:593-609 (no fallback branch)
RECURSIVE PairExpress(_, _, _, _, _)
PairExpress(playersToPair, i, paired, newPairings, rows) ==
    IF i > Len(playersToPair) THEN newPairings
    ELSE LET player1 == playersToPair[i]
             fresh == {j \in (i + 1)..Len(playersToPair) :
                         playersToPair[j] \notin paired
                         /\ playersToPair[j] \notin pastOpponents(rows, player1)}
             player2 == IF fresh # {} THEN playersToPair[Min(fresh)] ELSE NULL
         IN  IF player1 \in paired \/ player2 = NULL
             THEN PairExpress(playersToPair, i + 1, paired, newPairings, rows)
             ELSE PairExpress(playersToPair, i + 1, paired \cup {player1, player2},
                              Append(newPairings, Pairing(0, player1, player2, NoResult)), rows)

\* the handler body of part_000:564-620, from the rows that the query of
\* line 572 (ORDER BY points DESC, name ASC) returns
GenerateExpress(sorted, pts, bye, rows) ==
    LET odd == Len(sorted) % 2 # 0
        byePlayer == ByeExpress(sorted, bye)
        byeRows == IF odd THEN <<Pairing(0, byePlayer, NULL, WHITE_WIN)>> ELSE <<>>
        playersToPair == IF odd THEN Filter(sorted, Range(sorted) \ {byePlayer}) ELSE sorted
    IN  [points |-> IF odd THEN AddPoints(pts, byePlayer, 2) ELSE pts,
         had_bye |-> IF odd THEN [bye EXCEPT ![byePlayer] = TRUE] ELSE bye,
         pairings |-> InsertAll(rows, NextRound(rows),
                                PairExpress(playersToPair, 1, {}, byeRows, rows))]

\* app.post('/api/tournaments/:tournamentId/pairings/generate') of part_000
GenerateNextRoundExpress ==
    /\ app = "express"
    /\ generated' = generated + 1
    /\ UNCHANGED <<app, roster, player_ids, calls, inflight>>
    /\ LET g == GenerateExpress(SortPlayers(players, points), points, had_bye, pairings)
       IN  /\ points' = g.points
           /\ had_bye' = g.had_bye
           /\ pairings' = g.pairings
           /\ last' = Generated(201)

\* faulty variant of RevertExpress: the old result is never taken back
RevertExpressForgotten(pts, pairing) == pts

\* part_000:639-647: one UPDATE per branch of the if / else if chain
RevertExpress(pts, pairing) ==
    LET oldResult == pairing.result
    IN  IF oldResult = NoResult THEN pts
        ELSE IF oldResult = WHITE_WIN THEN AddPoints(pts, pairing.white_id, -2)
        ELSE IF oldResult = BLACK_WIN THEN AddPoints(pts, pairing.black_id, -2)
        ELSE IF oldResult = DRAW
             THEN AddPoints(AddPoints(pts, pairing.white_id, -1), pairing.black_id, -1)
        ELSE pts

\* part_000:649-655
ApplyExpress(pts, pairing, newResult) ==
    IF newResult = WHITE_WIN THEN AddPoints(pts, pairing.white_id, 2)
    ELSE IF newResult = BLACK_WIN THEN AddPoints(pts, pairing.black_id, 2)
    ELSE IF newResult = DRAW
         THEN AddPoints(AddPoints(pts, pairing.white_id, 1), pairing.black_id, 1)
    ELSE pts

\* the handler body of part_000:623-667: what it leaves committed, and its status
UpdateExpress(pts, prs, id, newResult) ==
    IF newResult \notin ValidResults THEN [points |-> pts, pairings |-> prs, status |-> 400]
    ELSE IF id \notin DOMAIN prs THEN [points |-> pts, pairings |-> prs, status |-> 404]
    ELSE [points |-> ApplyExpress(RevertExpress(pts, prs[id]), prs[id], newResult),
          pairings |-> [prs EXCEPT ![id].result = newResult],
          status |-> 200]

\* app.put('/api/pairings/:id') of part_000
SetResultExpress(id, newResult) ==
    /\ app = "express"
    /\ calls' = calls + 1
    /\ UNCHANGED <<app, roster, player_ids, had_bye, generated, inflight>>
    /\ LET u == UpdateExpress(points, pairings, id, newResult)
       IN  /\ points' = u.points
           /\ pairings' = u.pairings
           /\ last' = Updated(pairings, id, newResult, u.status)

\* ==== "netlify": api.js second router =====================================
\* SELECT id FROM pairings WHERE (white_id = $1 OR black_id = $1) AND black_id IS NULL
byeResult(rows, p) ==
    {i \in 1..Len(rows) : (rows[i].white_id = p \/ rows[i].black_id = p) /\ rows[i].black_id = NULL}

\* api.js:464-475: walk the sorted rows from the last one
ByeNetlify(sorted, rows) ==
    LET noBye == {i \in 1..Len(sorted) : byeResult(rows, sorted[i]) = {}}
    IN  IF noBye # {} THEN sorted[Max(noBye)] ELSE sorted[Len(sorted)]

\* SELECT id FROM pairings WHERE (white = $1 AND black = $2) OR (white = $2 AND black = $1)
prevGame(rows, player1, candidate) ==
    {i \in 1..Len(rows) :
        \/ rows[i].white_id = player1 /\ rows[i].black_id = candidate
        \/ rows[i].white_id = candidate /\ rows[i].black_id = player1}

\* faulty variant of PairNetlify: only player1 is added to pairedIds
RECURSIVE PairNetlifyHalfMarked(_, _, _, _, _)
PairNetlifyHalfMarked(sorted, i, pairedIds, rows, r) ==
    IF i > Len(sorted) THEN rows
    ELSE LET player1 == sorted[i]
             free == {j \in (i + 1)..Len(sorted) : sorted[j] \notin pairedIds}
             fresh == {j \in free : prevGame(rows, player1, sorted[j]) = {}}
             player2 == IF fresh # {} THEN sorted[Min(fresh)]
                        ELSE IF free # {} THEN sorted[Min(free)]
                        ELSE NULL
         IN  IF player1 \in pairedIds \/ player2 = NULL
             THEN PairNetlifyHalfMarked(sorted, i + 1, pairedIds, rows, r)
             ELSE PairNetlifyHalfMarked(sorted, i + 1, pairedIds \cup {player1},
                                        Append(rows, Pairing(r, player1, player2, NoResult)), r)

\* the loop of api.js:485-516; rows grows with every INSERT of the loop
RECURSIVE PairNetlify(_, _, _, _, _)
PairNetlify(sorted, i, pairedIds, rows, r) ==
    IF i > Len(sorted) THEN rows
    ELSE LET player1 == sorted[i]
             free == {j \in (i + 1)..Len(sorted) : sorted[j] \notin pairedIds}
             fresh == {j \in free : prevGame(rows, player1, sorted[j]) = {}}
             player2 == IF fresh # {} THEN sorted[Min(fresh)]
                        ELSE IF free # {} THEN sorted[Min(free)]
                        ELSE NULL
         IN  IF player1 \in pairedIds \/ player2 = NULL
             THEN PairNetlify(sorted, i + 1, pairedIds, rows, r)
             ELSE PairNetlify(sorted, i + 1, pairedIds \cup {player1, player2},
                              Append(rows, Pairing(r, player1, player2, NoResult)), r)

\* the handler body of api.js:448-527, from the rows that the query of
\* line 454 (ORDER BY points DESC, name ASC) returns
GenerateNetlify(sorted, pts, bye, rows) ==
    LET odd == Len(sorted) % 2 # 0
        currentRound == NextRound(rows)
        byePlayer == ByeNetlify(sorted, rows)
        withBye == IF odd THEN Append(rows, Pairing(currentRound, byePlayer, NULL, WHITE_WIN)) ELSE rows
        toPair == IF odd THEN Filter(sorted, Range(sorted) \ {byePlayer}) ELSE sorted
    IN  [points |-> IF odd THEN AddPoints(pts, byePlayer, 2) ELSE pts,
         had_bye |-> bye,
         pairings |-> PairNetlify(toPair, 1, {}, withBye, currentRound)]

\* router.post('/tournaments/:tournamentId/pairings/generate') of api.js (second)
GenerateNextRoundNetlify ==
    /\ app = "netlify"
    /\ generated' = generated + 1
    /\ UNCHANGED <<app, roster, player_ids, calls, inflight>>
    /\ LET g == GenerateNetlify(SortPlayers(players, points), points, had_bye, pairings)
       IN  /\ points' = g.points
           /\ had_bye' = g.had_bye
           /\ pairings' = g.pairings
           /\ last' = Generated(201)

\* faulty variant of RevertNetlify: a draw is taken back from white only
RevertNetlifyWhiteOnly(pts, white_id, black_id, old_result) ==
    IF old_result = NoResult THEN pts
    ELSE LET a == IF old_result = WHITE_WIN THEN AddPoints(pts, white_id, -2) ELSE pts
             b == IF old_result = BLACK_WIN THEN AddPoints(a, black_id, -2) ELSE a
         IN  IF old_result = DRAW THEN AddPoints(b, white_id, -1) ELSE b

\* api.js:544-552: three independent ifs
RevertNetlify(pts, white_id, black_id, old_result) ==
    IF old_result = NoResult THEN pts
    ELSE LET a == IF old_result = WHITE_WIN THEN AddPoints(pts, white_id, -2) ELSE pts
             b == IF old_result = BLACK_WIN THEN AddPoints(a, black_id, -2) ELSE a
         IN  IF old_result = DRAW THEN AddPoints(AddPoints(b, white_id, -1), black_id, -1) ELSE b

\* faulty variant of ApplyNetlify: a draw gives its half point to white only
ApplyNetlifyDrawWhiteOnly(pts, white_id, black_id, result) ==
    LET a == IF result = WHITE_WIN THEN AddPoints(pts, white_id, 2) ELSE pts
        b == IF result = BLACK_WIN THEN AddPoints(a, black_id, 2) ELSE a
    IN  IF result = DRAW THEN AddPoints(b, white_id, 1) ELSE b

\* api.js:554-560
ApplyNetlify(pts, white_id, black_id, result) ==
    LET a == IF result = WHITE_WIN THEN AddPoints(pts, white_id, 2) ELSE pts
        b == IF result = BLACK_WIN THEN AddPoints(a, black_id, 2) ELSE a
    IN  IF result = DRAW THEN AddPoints(AddPoints(b, white_id, 1), black_id, 1) ELSE b

\* the handler body of api.js:531-573 (the request body is not validated)
UpdateNetlify(pts, prs, id, result) ==
    IF id \notin DOMAIN prs THEN [points |-> pts, pairings |-> prs, status |-> 404]
    ELSE [points |-> ApplyNetlify(RevertNetlify(pts, prs[id].white_id, prs[id].black_id, prs[id].result),
                                  prs[id].white_id, prs[id].black_id, result),
          pairings |-> [prs EXCEPT ![id].result = result],
          status |-> 200]

\* router.put('/pairings/:id') of api.js (second)
SetResultNetlify(id, result) ==
    /\ app = "netlify"
    /\ calls' = calls + 1
    /\ UNCHANGED <<app, roster, player_ids, had_bye, generated, inflight>>
    /\ LET u == UpdateNetlify(points, pairings, id, result)
       IN  /\ points' = u.points
           /\ pairings' = u.pairings
           /\ last' = Updated(pairings, id, result, u.status)

\* ==== "auth": api.js first router ==========================================
\* players.id: the serial primary key of player p
playerId(p) == player_ids[p]

\* JavaScript strings are sequences of one-character strings
Digit(d) == <<"0", "1", "2", "3", "4", "5", "6", "7", "8", "9">>[d + 1]
DigitValue(c) == CHOOSE d \in 0..9 : Digit(d) = c
\* the order of the UTF-16 code units of ",", "0".."9" and "n" (of "null")
CodeUnit(c) == IF c = "," THEN 0 ELSE IF c = "n" THEN 11 ELSE DigitValue(c) + 1

\* String(n) of a non-negative integer
RECURSIVE NumberToString(_)
NumberToString(n) == IF n < 10 THEN <<Digit(n)>> ELSE NumberToString(n \div 10) \o <<Digit(n % 10)>>

\* String(x) as Array.prototype.sort sees an id or null
SortKey(x) == IF x = NULL THEN <<"n", "u", "l", "l">> ELSE NumberToString(x)

\* x < y on strings
RECURSIVE StringLess(_, _)
StringLess(x, y) ==
    IF y = <<>> THEN FALSE
    ELSE IF x = <<>> THEN TRUE
    ELSE IF Head(x) # Head(y) THEN CodeUnit(Head(x)) < CodeUnit(Head(y))
    ELSE StringLess(Tail(x), Tail(y))

\* [white_id, black_id].sort().toString(): null joins as the empty string
HistoryKey(white_id, black_id) ==
    LET text(x) == IF x = NULL THEN <<>> ELSE NumberToString(x)
    IN  IF StringLess(SortKey(black_id), SortKey(white_id))
        THEN text(black_id) \o <<",">> \o text(white_id)
        ELSE text(white_id) \o <<",">> \o text(black_id)

\* the places where s occurs in h
Occurrences(h, s) == {i \in 1..(Len(h) - Len(s) + 1) : SubSeq(h, i, i + Len(s) - 1) = s}
\* h.includes(s)
Includes(h, s) == Occurrences(h, s) # {}
\* h.replace(s, ''): the first occurrence only
RemoveFirst(h, s) ==
    IF Includes(h, s)
    THEN SubSeq(h, 1, Min(Occurrences(h, s)) - 1) \o SubSeq(h, Min(Occurrences(h, s)) + Len(s), Len(h))
    ELSE h
\* Number(text) of a string of digits; Number('') is 0
RECURSIVE ToNumber(_)
ToNumber(text) ==
    IF text = <<>> THEN 0
    ELSE 10 * ToNumber(SubSeq(text, 1, Len(text) - 1)) + DigitValue(text[Len(text)])

\* history of api.js:174-175
History(rows) ==
    [i \in 1..Len(rows) |->
        HistoryKey(IF rows[i].white_id = NULL THEN NULL ELSE playerId(rows[i].white_id),
                   IF rows[i].black_id = NULL THEN NULL ELSE playerId(rows[i].black_id))]

\* pairingOptions.getAvoidPaired of api.js:179
getAvoidPaired(history, id) ==
    LET hits == SelectSeq(history, LAMBDA h : Includes(h, NumberToString(id)))
    IN  [k \in 1..Len(hits) |-> ToNumber(RemoveFirst(RemoveFirst(hits[k], NumberToString(id)), <<",">>))]

\* the pairing walk of the library: first unpaired later player not to be
\* avoided, else the first unpaired later player
RECURSIVE SwissPairs(_, _, _, _, _)
SwissPairs(sorted, i, paired, pairs, history) ==
    IF i > Len(sorted) THEN pairs
    ELSE LET player1 == sorted[i]
             avoid == Range(getAvoidPaired(history, playerId(player1)))
             free == {j \in (i + 1)..Len(sorted) : sorted[j] \notin paired}
             fresh == {j \in free : playerId(sorted[j]) \notin avoid}
             player2 == IF fresh # {} THEN sorted[Min(fresh)]
                        ELSE IF free # {} THEN sorted[Min(free)]
                        ELSE NULL
         IN  IF player1 \in paired \/ player2 = NULL
             THEN SwissPairs(sorted, i + 1, paired, pairs, history)
             ELSE SwissPairs(sorted, i + 1, paired \cup {player1, player2},
                             Append(pairs, [player1 |-> player1, player2 |-> player2]), history)

\* SwissPairing(tournamentPlayers, pairingOptions) of the swiss-pairing
\* package: the roster it is given is put into the canonical order first
SwissPairing(tournamentPlayers, pts, bye, history) ==
    LET sorted == SortPlayers(Range(tournamentPlayers), pts)
        odd == Len(sorted) % 2 # 0
        noBye == {i \in 1..Len(sorted) : ~bye[sorted[i]]}
        byePlayer == IF noBye # {} THEN sorted[Max(noBye)] ELSE sorted[Len(sorted)]
        byePair == IF odd THEN <<[player1 |-> byePlayer, player2 |-> NULL]>> ELSE <<>>
        toPair == IF odd THEN Filter(sorted, Range(sorted) \ {byePlayer}) ELSE sorted
    IN  SwissPairs(toPair, 1, {}, byePair, history)

\* the loop  for (const pair of pairings)  of api.js:187-194
RECURSIVE InsertAuth(_, _, _)
InsertAuth(db, pairs, currentRound) ==
    IF pairs = <<>> THEN db
    ELSE LET pair == Head(pairs)
         IN  IF pair.player2 # NULL
             THEN InsertAuth([db EXCEPT !.pairings =
                                 Append(@, Pairing(currentRound, pair.player1, pair.player2, NoResult))],
                             Tail(pairs), currentRound)
             ELSE InsertAuth([points |-> AddPoints(db.points, pair.player1, 2),
                              had_bye |-> [db.had_bye EXCEPT ![pair.player1] = TRUE],
                              pairings |-> Append(db.pairings,
                                                  Pairing(currentRound, pair.player1, NULL, WHITE_WIN))],
                             Tail(pairs), currentRound)

\* the handler body of api.js:166-205, from the rows that the query of
\* line 171 returns
GenerateAuth(tournamentPlayers, pts, bye, rows) ==
    InsertAuth([points |-> pts, had_bye |-> bye, pairings |-> rows],
               SwissPairing(tournamentPlayers, pts, bye, History(rows)), NextRound(rows))

\* router.post('/tournaments/:tournamentId/pairings/generate') of api.js (first)
GenerateNextRoundAuth ==
    /\ app = "auth"
    /\ generated' = generated + 1
    /\ UNCHANGED <<app, roster, player_ids, calls, inflight>>
    /\ LET g == GenerateAuth(SortPlayers(players, points), points, had_bye, pairings)
       IN  /\ points' = g.points
           /\ had_bye' = g.had_bye
           /\ pairings' = g.pairings
           /\ last' = Generated(201)

\* faulty variant of AddPointsAny: the WHERE clause is missing
AddPointsEvery(pts, ids, d) == [p \in DOMAIN pts |-> pts[p] + d]

\* UPDATE players SET points = points + d WHERE id = ANY($1::int[])
AddPointsAny(pts, ids, d) == [p \in DOMAIN pts |-> IF p \in ids THEN pts[p] + d ELSE pts[p]]

\* faulty variant of RevertAuth: a draw is taken back as a full point from each
RevertAuthDrawAsWin(pts, white_id, black_id, old_result) ==
    IF old_result = NoResult THEN pts
    ELSE LET a == IF old_result = WHITE_WIN THEN AddPoints(pts, white_id, -2) ELSE pts
             b == IF old_result = BLACK_WIN THEN AddPoints(a, black_id, -2) ELSE a
         IN  IF old_result = DRAW THEN AddPointsAny(b, {white_id, black_id}, -2) ELSE b

\* api.js:218-225
RevertAuth(pts, white_id, black_id, old_result) ==
    IF old_result = NoResult THEN pts
    ELSE LET a == IF old_result = WHITE_WIN THEN AddPoints(pts, white_id, -2) ELSE pts
             b == IF old_result = BLACK_WIN THEN AddPoints(a, black_id, -2) ELSE a
         IN  IF old_result = DRAW THEN AddPointsAny(b, {white_id, black_id}, -1) ELSE b

\* api.js:226-231
ApplyAuth(pts, white_id, black_id, result) ==
    LET a == IF result = WHITE_WIN THEN AddPoints(pts, white_id, 2) ELSE pts
        b == IF result = BLACK_WIN THEN AddPoints(a, black_id, 2) ELSE a
    IN  IF result = DRAW THEN AddPointsAny(b, {white_id, black_id}, 1) ELSE b

\* the handler body of api.js:207-241 (the request body is not validated)
UpdateAuth(pts, prs, id, result) ==
    IF id \notin DOMAIN prs THEN [points |-> pts, pairings |-> prs, status |-> 404]
    ELSE [points |-> ApplyAuth(RevertAuth(pts, prs[id].white_id, prs[id].black_id, prs[id].result),
                               prs[id].white_id, prs[id].black_id, result),
          pairings |-> [prs EXCEPT ![id].result = result],
          status |-> 200]

\* router.put('/pairings/:id') of api.js (first)
SetResultAuth(id, result) ==
    /\ app = "auth"
    /\ calls' = calls + 1
    /\ UNCHANGED <<app, roster, player_ids, had_bye, generated, inflight>>
    /\ LET u == UpdateAuth(points, pairings, id, result)
       IN  /\ points' = u.points
           /\ pairings' = u.pairings
           /\ last' = Updated(pairings, id, result, u.status)

\* ==== specification =======================================================
Init ==
    /\ app \in Apps
    /\ roster \in 0..MaxPlayers
    /\ player_ids = [p \in players |-> p]
    /\ points = [p \in players |-> 0]
    /\ had_bye = [p \in players |-> FALSE]
    /\ pairings = <<>>
    /\ generated = 0
    /\ calls = 0
    /\ last = [op |-> "init", status |-> 0, id |-> NULL, old |-> NoResult, result |-> NoResult,
               step |-> 0, standings |-> <<>>]
    /\ inflight = [c \in Clients |-> Idle]

\* one request to one of the handlers, at most MaxRounds generate requests
\* and MaxResultCalls result requests
Next ==
    \/ generated < MaxRounds /\ GenerateNextRoundServerless
    \/ generated < MaxRounds /\ GenerateNextRoundExpress
    \/ generated < MaxRounds /\ GenerateNextRoundAuth
    \/ generated < MaxRounds /\ GenerateNextRoundNetlify
    \/ calls < MaxResultCalls /\ \E id \in 1..(Len(pairings) + 1), result \in RequestResults :
            SetResultServerless(id, result)
    \/ calls < MaxResultCalls /\ \E id \in 1..(Len(pairings) + 1), result \in RequestResults :
            SetResultExpress(id, result)
    \/ calls < MaxResultCalls /\ \E id \in 1..(Len(pairings) + 1), result \in RequestResults :
            SetResultAuth(id, result)
    \/ calls < MaxResultCalls /\ \E id \in 1..(Len(pairings) + 1), result \in RequestResults :
            SetResultNetlify(id, result)

Spec == Init /\ [][Next]_vars

\* the same requests, run for CycleRounds rounds
NextCycle ==
    \/ generated < CycleRounds /\ GenerateNextRoundServerless
    \/ generated < CycleRounds /\ GenerateNextRoundExpress
    \/ generated < CycleRounds /\ GenerateNextRoundAuth
    \/ generated < CycleRounds /\ GenerateNextRoundNetlify
    \/ calls < CycleResultCalls /\ \E id \in 1..(Len(pairings) + 1), result \in RequestResults :
            SetResultServerless(id, result)
    \/ calls < CycleResultCalls /\ \E id \in 1..(Len(pairings) + 1), result \in RequestResults :
            SetResultExpress(id, result)
    \/ calls < CycleResultCalls /\ \E id \in 1..(Len(pairings) + 1), result \in RequestResults :
            SetResultAuth(id, result)
    \/ calls < CycleResultCalls /\ \E id \in 1..(Len(pairings) + 1), result \in RequestResults :
            SetResultNetlify(id, result)

SpecCycle == Init /\ [][NextCycle]_vars

\* ==== the deployed revision's operations ===================================
\* setPairingResult(pairingId, result) of the deployed revision
setResult(pts, prs, id, result) ==
    CASE app = "serverless" -> UpdateServerless(pts, prs, id, result)
      [] app = "express" -> UpdateExpress(pts, prs, id, result)
      [] app = "auth" -> UpdateAuth(pts, prs, id, result)
      [] app = "netlify" -> UpdateNetlify(pts, prs, id, result)

\* a step that serves a generate request / a set-result request
GenerateStep == generated' = generated + 1
SetResultStep == calls' = calls + 1

\* the rows a generate step inserts
NewRows == SubSeq(pairings', Len(pairings) + 1, Len(pairings'))
IsBye(row) == row.black_id = NULL
IsGame(row) == row.black_id # NULL

\* ==== storage failures ====================================================
\* the statements a generate request has written when it fails: the UPDATE
\* of the bye player (points, and the bye flag where the statement sets it)
\* and the INSERTs, in the order of the deployed revision
PointsWrite(p, d, flag) == [kind |-> "points", id |-> p, d |-> d, flag |-> flag, row |-> Pairing(0, NULL, NULL, NoResult)]
InsertWrite(row) == [kind |-> "insert", id |-> NULL, d |-> 0, flag |-> FALSE, row |-> row]

\* one statement run on the connection's uncommitted view of the tables
ApplyWrite(db, w) ==
    IF w.kind = "insert" THEN [db EXCEPT !.pairings = Append(@, w.row)]
    ELSE [db EXCEPT !.points = AddPoints(@, w.id, w.d),
                    !.had_bye = IF w.flag THEN [@ EXCEPT ![w.id] = TRUE] ELSE @]

\* the first k statements of ws
RECURSIVE ApplyWrites(_, _, _)
ApplyWrites(db, ws, k) ==
    IF k = 0 THEN db ELSE ApplyWrite(ApplyWrites(db, ws, k - 1), ws[k])

\* the writes of the generate handler of the deployed revision, in order
WritesGenerate(db) ==
    LET sorted == SortPlayers(players, db.points)
        g == CASE app = "serverless" ->
                     IF roster < 2 THEN db
                     ELSE GenerateServerless(sorted, db.points, db.had_bye, db.pairings)
               [] app = "express" -> GenerateExpress(sorted, db.points, db.had_bye, db.pairings)
               [] app = "auth" -> GenerateAuth(sorted, db.points, db.had_bye, db.pairings)
               [] app = "netlify" -> GenerateNetlify(sorted, db.points, db.had_bye, db.pairings)
        rows == SubSeq(g.pairings, Len(db.pairings) + 1, Len(g.pairings))
        byes == SelectSeq(rows, LAMBDA r : r.black_id = NULL)
        games == SelectSeq(rows, LAMBDA r : r.black_id # NULL)
        inserts(rs) == [k \in 1..Len(rs) |-> InsertWrite(rs[k])]
        award == [k \in 1..Len(byes) |-> PointsWrite(byes[k].white_id, 2, app # "netlify")]
    IN  IF app \in {"serverless", "express"}
        THEN award \o inserts(byes) \o inserts(games)
        ELSE inserts(byes) \o award \o inserts(games)

\* the tables after the revert, after the apply and after the UPDATE of the
\* pairing of the set-result handler of the deployed revision, for the row
\* that its SELECT returned
StagesOfRow(db, row, id, result) ==
    LET reverted == CASE app = "serverless" -> RevertServerless(db.points, row)
                      [] app = "express" -> RevertExpress(db.points, row)
                      [] app = "auth" -> RevertAuth(db.points, row.white_id, row.black_id, row.result)
                      [] app = "netlify" -> RevertNetlify(db.points, row.white_id, row.black_id, row.result)
        applied == CASE app = "serverless" -> ApplyServerless(reverted, row, result)
                     [] app = "express" -> ApplyExpress(reverted, row, result)
                     [] app = "auth" -> ApplyAuth(reverted, row.white_id, row.black_id, result)
                     [] app = "netlify" -> ApplyNetlify(reverted, row.white_id, row.black_id, result)
    IN  <<[db EXCEPT !.points = reverted],
          [db EXCEPT !.points = applied],
          [db EXCEPT !.points = applied, !.pairings = [@ EXCEPT ![id].result = result]]>>

StagesSetResult(db, id, result) == StagesOfRow(db, db.pairings[id], id, result)

\* faulty variant of Rollback: the catch block answers without ROLLBACK and
\* the statements made so far stay
RollbackSkipped(committed, work) == work

\* catch: await client.query('ROLLBACK'): the statements made on the
\* connection since BEGIN are discarded
Rollback(committed, work) == committed

\* a generate request in which a storage operation fails after `step` writes
GenerateFails ==
    /\ generated' = generated + 1
    /\ UNCHANGED <<app, roster, player_ids, calls, inflight>>
    /\ LET db == [points |-> points, had_bye |-> had_bye, pairings |-> pairings]
           ws == WritesGenerate(db)
       IN  \E step \in 0..Len(ws) :
              LET after == Rollback(db, ApplyWrites(db, ws, step))
              IN  /\ points' = after.points
                  /\ had_bye' = after.had_bye
                  /\ pairings' = after.pairings
                  /\ last' = [Generated(500) EXCEPT !.step = step]

\* a set-result request in which a storage operation fails after `step`
\* of the three stages (the two handlers of part_000 reach the storage only
\* with one of the three results)
SetResultFails(id, result) ==
    /\ app \in {"serverless", "express"} => result \in ValidResults
    /\ calls' = calls + 1
    /\ UNCHANGED <<app, roster, player_ids, generated, inflight>>
    /\ LET db == [points |-> points, had_bye |-> had_bye, pairings |-> pairings]
       IN  \E step \in 0..(IF id \in DOMAIN pairings THEN 3 ELSE 0) :
              LET work == IF step = 0 THEN db ELSE StagesSetResult(db, id, result)[step]
                  after == Rollback(db, work)
              IN  /\ points' = after.points
                  /\ had_bye' = after.had_bye
                  /\ pairings' = after.pairings
                  /\ last' = [Updated(pairings, id, result, 500) EXCEPT !.step = step]

\* the requests of Next, each of which can also end in its catch block
NextFault ==
    \/ generated < FaultRounds /\ GenerateNextRoundServerless
    \/ generated < FaultRounds /\ GenerateNextRoundExpress
    \/ generated < FaultRounds /\ GenerateNextRoundAuth
    \/ generated < FaultRounds /\ GenerateNextRoundNetlify
    \/ generated < FaultRounds /\ GenerateFails
    \/ calls < FaultResultCalls /\ \E id \in 1..(Len(pairings) + 1), result \in RequestResults :
            SetResultServerless(id, result)
    \/ calls < FaultResultCalls /\ \E id \in 1..(Len(pairings) + 1), result \in RequestResults :
            SetResultExpress(id, result)
    \/ calls < FaultResultCalls /\ \E id \in 1..(Len(pairings) + 1), result \in RequestResults :
            SetResultAuth(id, result)
    \/ calls < FaultResultCalls /\ \E id \in 1..(Len(pairings) + 1), result \in RequestResults :
            SetResultNetlify(id, result)
    \/ calls < FaultResultCalls /\ \E id \in 1..(Len(pairings) + 1), result \in RequestResults :
            SetResultFails(id, result)

SpecFault == Init /\ [][NextFault]_vars

\* ==== requests served at the same time ==================================
\* The handlers are async functions: between the awaits of one request the
\* server runs those of another, each on its own connection and in its own
\* transaction (READ COMMITTED, no SELECT ... FOR UPDATE, no lock).  A
\* request is served in two steps: its reads, then its writes and COMMIT.
Quiescent == \A c \in Clients : inflight[c] = Idle

\* the generate handler has read the players and the pairings
BeginGenerate(c) ==
    /\ inflight[c] = Idle
    /\ generated' = generated + 1
    /\ inflight' = [inflight EXCEPT ![c] =
            [Idle EXCEPT !.op = "generate",
                         !.snapshot = [points |-> points, had_bye |-> had_bye, pairings |-> pairings]]]
    /\ UNCHANGED <<app, roster, player_ids, points, had_bye, pairings, calls, last>>

\* it writes what it computed from its reads: points = points + 1 on the
\* row as it is now, the INSERTs with the round number it computed
CommitGenerate(c) ==
    /\ inflight[c].op = "generate"
    /\ LET db == [points |-> points, had_bye |-> had_bye, pairings |-> pairings]
           ws == WritesGenerate(inflight[c].snapshot)
           after == ApplyWrites(db, ws, Len(ws))
       IN  /\ points' = after.points
           /\ had_bye' = after.had_bye
           /\ pairings' = after.pairings
    /\ last' = Generated(IF app = "serverless" /\ roster < 2 THEN 400 ELSE 201)
    /\ inflight' = [inflight EXCEPT ![c] = Idle]
    /\ UNCHANGED <<app, roster, player_ids, generated, calls>>

\* the set-result handler has read the pairing (requests with one of the
\* three results for a stored pairing)
BeginSetResult(c, id, result) ==
    /\ inflight[c] = Idle
    /\ id \in DOMAIN pairings /\ result \in ValidResults
    /\ calls' = calls + 1
    /\ inflight' = [inflight EXCEPT ![c] =
            [Idle EXCEPT !.op = "setResult", !.id = id, !.result = result, !.row = pairings[id]]]
    /\ UNCHANGED <<app, roster, player_ids, points, had_bye, pairings, generated, last>>

\* it reverts the result it read, applies the new one and stores it
CommitSetResult(c) ==
    /\ inflight[c].op = "setResult"
    /\ LET db == [points |-> points, had_bye |-> had_bye, pairings |-> pairings]
           r == inflight[c]
           after == StagesOfRow(db, r.row, r.id, r.result)[3]
       IN  /\ points' = after.points
           /\ pairings' = after.pairings
           /\ last' = [Updated(pairings, r.id, r.result, 200) EXCEPT !.old = r.row.result]
    /\ inflight' = [inflight EXCEPT ![c] = Idle]
    /\ UNCHANGED <<app, roster, player_ids, had_bye, generated, calls>>

NextRace ==
    \/ generated < RaceRounds /\ \E c \in Clients : BeginGenerate(c)
    \/ \E c \in Clients : CommitGenerate(c)
    \/ calls < RaceResultCalls /\ \E c \in Clients, id \in DOMAIN pairings, result \in ValidResults :
            BeginSetResult(c, id, result)
    \/ \E c \in Clients : CommitSetResult(c)

SpecRace == Init /\ [][NextRace]_vars

\* ==== row locks of result requests served at the same time ==============
\* Every UPDATE of a players row locks the row until the transaction ends;
\* an UPDATE of a row that another transaction has locked waits.  When each
\* of two transactions waits for a row the other one has locked, the
\* database ends one of them with an error (deadlock detected): its query()
\* rejects and the handler goes to its catch block.

\* the players rows that the UPDATE statements for the result res touch, in
\* the order of the statements; the statement with  id = ANY($1::int[])  of
\* the first router of api.js touches its two rows in either order
Touched(res, w, b) ==
    IF app = "serverless"
    THEN {IF res = NoResult THEN <<>> ELSE <<w, b>>}
    ELSE IF res = WHITE_WIN THEN {<<w>>}
    ELSE IF res = BLACK_WIN THEN {<<b>>}
    ELSE IF res = DRAW THEN (IF app = "auth" THEN {<<w, b>>, <<b, w>>} ELSE {<<w, b>>})
    ELSE {<<>>}

\* the rows a set-result request locks, in order: those of the statements
\* that take back the stored result, then those that apply the new one
\* (WHERE id = NULL matches no row)
LockOrders(row, result) ==
    {SelectSeq(revert \o apply, LAMBDA p : p # NULL) :
        revert \in Touched(row.result, row.white_id, row.black_id),
        apply \in Touched(result, row.white_id, row.black_id)}

Other(c) == CHOOSE o \in Clients : o # c

\* the next UPDATE of the request of c waits for a row that the other
\* request has locked
Waits(c) ==
    /\ inflight[c].op = "setResult" /\ inflight[c].todo # <<>>
    /\ Head(inflight[c].todo) \in inflight[Other(c)].held

\* BEGIN and the SELECT of the pairing
BeginSetResultLocking(c, id, result) ==
    /\ inflight[c] = Idle
    /\ id \in DOMAIN pairings /\ result \in ValidResults
    /\ calls' = calls + 1
    /\ \E order \in LockOrders(pairings[id], result) :
          inflight' = [inflight EXCEPT ![c] =
              [Idle EXCEPT !.op = "setResult", !.id = id, !.result = result,
                           !.row = pairings[id], !.todo = order]]
    /\ UNCHANGED <<app, roster, player_ids, points, had_bye, pairings, generated, last>>

\* the next UPDATE of a players row, once no other transaction holds the row
UpdatePlayer(c) ==
    /\ inflight[c].op = "setResult" /\ inflight[c].todo # <<>>
    /\ ~Waits(c)
    /\ inflight' = [inflight EXCEPT ![c].held = @ \cup {Head(inflight[c].todo)},
                                    ![c].todo = Tail(@)]
    /\ UNCHANGED <<app, roster, player_ids, points, had_bye, pairings, generated, calls, last>>

\* the UPDATE of the pairing and COMMIT: the changes of the transaction
\* become the stored ones and its locks are released
CommitSetResultLocking(c) ==
    /\ inflight[c].op = "setResult" /\ inflight[c].todo = <<>>
    /\ LET db == [points |-> points, had_bye |-> had_bye, pairings |-> pairings]
           r == inflight[c]
           after == StagesOfRow(db, r.row, r.id, r.result)[3]
       IN  /\ points' = after.points
           /\ pairings' = after.pairings
           /\ last' = [Updated(pairings, r.id, r.result, 200) EXCEPT !.old = r.row.result]
    /\ inflight' = [inflight EXCEPT ![c] = Idle]
    /\ UNCHANGED <<app, roster, player_ids, had_bye, generated, calls>>

\* both requests wait for each other and the database ends the one of c:
\* catch, ROLLBACK, status 500
DeadlockDetected(c) ==
    /\ Waits(c) /\ Waits(Other(c))
    /\ last' = [Updated(pairings, inflight[c].id, inflight[c].result, 500)
                    EXCEPT !.old = inflight[c].row.result, !.step = Cardinality(inflight[c].held)]
    /\ inflight' = [inflight EXCEPT ![c] = Idle]
    /\ UNCHANGED <<app, roster, player_ids, points, had_bye, pairings, generated, calls>>

InitLocks ==
    /\ app \in Apps
    /\ roster \in 0..LockPlayers
    /\ player_ids = [p \in players |-> p]
    /\ points = [p \in players |-> 0]
    /\ had_bye = [p \in players |-> FALSE]
    /\ pairings = <<>>
    /\ generated = 0
    /\ calls = 0
    /\ last = [op |-> "init", status |-> 0, id |-> NULL, old |-> NoResult, result |-> NoResult,
               step |-> 0, standings |-> <<>>]
    /\ inflight = [c \in Clients |-> Idle]

\* generate requests one at a time, result requests two at a time
NextLocks ==
    \/ generated < LockRounds /\ Quiescent /\ GenerateNextRoundServerless
    \/ generated < LockRounds /\ Quiescent /\ GenerateNextRoundExpress
    \/ generated < LockRounds /\ Quiescent /\ GenerateNextRoundAuth
    \/ generated < LockRounds /\ Quiescent /\ GenerateNextRoundNetlify
    \/ calls < LockResultCalls /\ \E c \in Clients, id \in DOMAIN pairings, result \in ValidResults :
            BeginSetResultLocking(c, id, result)
    \/ \E c \in Clients : UpdatePlayer(c)
    \/ \E c \in Clients : CommitSetResultLocking(c)
    \/ \E c \in Clients : DeadlockDetected(c)

SpecLocks == InitLocks /\ [][NextLocks]_vars

\* ==== the rows as the storage returns them ================================
\* SELECT ... FROM players WHERE tournament_id = $1  has no ORDER BY in the
\* export handlers, in the generate handler of the router of part_000 and
\* in that of the first router of api.js: the rows of the roster come in
\* any order
StorageOrders(S) == {stored \in [1..Cardinality(S) -> S] : Range(stored) = S}

\* the generate handler of the deployed revision, from the rows in the order
\* stored: sorted by the handler (part_000:227), by the query (part_000:572,
\* api.js:454) or handed to the package as they come (api.js:182)
generateNextRound(stored, pts, bye, prs) ==
    LET g == CASE app = "serverless" -> GenerateServerless(SortRows(stored, pts), pts, bye, prs)
               [] app = "express" -> GenerateExpress(SortRows(stored, pts), pts, bye, prs)
               [] app = "auth" -> GenerateAuth(stored, pts, bye, prs)
               [] app = "netlify" -> GenerateNetlify(SortRows(stored, pts), pts, bye, prs)
    IN  IF app = "serverless" /\ Len(stored) < 2
        THEN [points |-> pts, had_bye |-> bye, pairings |-> prs, status |-> 400]
        ELSE [points |-> g.points, had_bye |-> g.had_bye, pairings |-> g.pairings, status |-> 201]

\* a generate request for which the storage returns the player rows in the
\* order stored
GenerateNextRoundStored(stored) ==
    /\ generated' = generated + 1
    /\ UNCHANGED <<app, roster, player_ids, calls, inflight>>
    /\ LET g == generateNextRound(stored, points, had_bye, pairings)
       IN  /\ points' = g.points
           /\ had_bye' = g.had_bye
           /\ pairings' = g.pairings
           /\ last' = Generated(g.status)

\* ---- export of the standings ------------------------------------------------
\* pairings.filter(p => p.white_id === player.id || p.black_id === player.id)
\*     .map(p => p.white_id === player.id ? p.black_id : p.white_id).filter(Boolean)
opponentIdsDistinct(prs, p) ==
    LET playerPairings == SelectSeq(prs, LAMBDA r : r.white_id = p \/ r.black_id = p)
        all == [k \in 1..Len(playerPairings) |->
                  IF playerPairings[k].white_id = p THEN playerPairings[k].black_id
                  ELSE playerPairings[k].white_id]
        met == {all[k] : k \in 1..Len(all)} \ {NULL}
    IN  [k \in 1..Cardinality(met) |-> CHOOSE o \in met : Cardinality({q \in met : q < o}) = k - 1]

opponentIds(prs, p) ==
    LET playerPairings == SelectSeq(prs, LAMBDA r : r.white_id = p \/ r.black_id = p)
        all == [k \in 1..Len(playerPairings) |->
                  IF playerPairings[k].white_id = p THEN playerPairings[k].black_id
                  ELSE playerPairings[k].white_id]
    IN  SelectSeq(all, LAMBDA o : o # NULL)

\* opponentIds.reduce((sum, oppId) => sum + (opponent ? parseFloat(opponent.points) : 0), 0)
\* in half points
RECURSIVE buchholz(_, _)
buchholz(ids, pts) ==
    IF ids = <<>> THEN 0
    ELSE (IF Head(ids) \in DOMAIN pts THEN pts[Head(ids)] ELSE 0) + buchholz(Tail(ids), pts)

\* Number.prototype.toFixed(1) of h half points: the decimal with one digit
\* after the point ("0.0", "0.5", "1.0", ...), held as its number of tenths
toFixed(h) == 5 * h

\* the comparator  (a, b) => b.Puntos - a.Puntos || b.Buchholz - a.Buchholz
\* is negative: a goes first (the subtraction converts the decimals back to
\* numbers)
Ahead(a, b) ==
    \/ a.Puntos > b.Puntos
    \/ a.Puntos = b.Puntos /\ a.Buchholz > b.Buchholz

\* players.map(player => ...).sort(comparator): the rows of the response
\* (the app of part_000 sorts the numbers and formats them afterwards)
computeStandings(stored, pts, prs) ==
    LET rows == [k \in 1..Len(stored) |->
                    [Nombre |-> name(stored[k]),
                     Puntos |-> toFixed(pts[stored[k]]),
                     Buchholz |-> toFixed(buchholz(opponentIds(prs, stored[k]), pts)),
                     Partidas |-> Len(opponentIds(prs, stored[k]))]]
    IN  [k \in 1..Len(rows) |->
            rows[CHOOSE i \in 1..Len(rows) :
                Cardinality({j \in 1..Len(rows) :
                    Ahead(rows[j], rows[i]) \/ (~Ahead(rows[i], rows[j]) /\ j < i)}) = k - 1]]

\* router.get('/tournaments/:tournamentId/export'): two reads, no write
Export(stored) ==
    /\ last' = [op |-> "export", status |-> 200, id |-> NULL, old |-> NoResult,
                result |-> NoResult, step |-> 0,
                standings |-> computeStandings(stored, points, pairings)]
    /\ UNCHANGED <<app, roster, player_ids, points, had_bye, pairings, generated, calls, inflight>>

InitExport ==
    /\ app \in Apps
    /\ roster \in 0..ExportPlayers
    /\ player_ids = [p \in players |-> p]
    /\ points = [p \in players |-> 0]
    /\ had_bye = [p \in players |-> FALSE]
    /\ pairings = <<>>
    /\ generated = 0
    /\ calls = 0
    /\ last = [op |-> "init", status |-> 0, id |-> NULL, old |-> NoResult, result |-> NoResult,
               step |-> 0, standings |-> <<>>]
    /\ inflight = [c \in Clients |-> Idle]

InitRows ==
    /\ app \in Apps
    /\ roster \in 0..RowsPlayers
    /\ player_ids = [p \in players |-> p]
    /\ points = [p \in players |-> 0]
    /\ had_bye = [p \in players |-> FALSE]
    /\ pairings = <<>>
    /\ generated = 0
    /\ calls = 0
    /\ last = [op |-> "init", status |-> 0, id |-> NULL, old |-> NoResult, result |-> NoResult,
               step |-> 0, standings |-> <<>>]
    /\ inflight = [c \in Clients |-> Idle]

\* generate requests on the rows in any order, and result requests
NextRows ==
    \/ generated < RowsRounds /\ \E stored \in StorageOrders(players) :
            GenerateNextRoundStored(stored)
    \/ calls < RowsResultCalls /\ \E id \in 1..(Len(pairings) + 1), result \in RequestResults :
            SetResultServerless(id, result)
    \/ calls < RowsResultCalls /\ \E id \in 1..(Len(pairings) + 1), result \in RequestResults :
            SetResultExpress(id, result)
    \/ calls < RowsResultCalls /\ \E id \in 1..(Len(pairings) + 1), result \in RequestResults :
            SetResultAuth(id, result)
    \/ calls < RowsResultCalls /\ \E id \in 1..(Len(pairings) + 1), result \in RequestResults :
            SetResultNetlify(id, result)

SpecRows == InitRows /\ [][NextRows]_vars

\* the requests of Next, and exports on the rows in any order
NextExport ==
    \/ generated < ExportRounds /\ GenerateNextRoundServerless
    \/ generated < ExportRounds /\ GenerateNextRoundExpress
    \/ generated < ExportRounds /\ GenerateNextRoundAuth
    \/ generated < ExportRounds /\ GenerateNextRoundNetlify
    \/ calls < ExportResultCalls /\ \E id \in 1..(Len(pairings) + 1), result \in RequestResults :
            SetResultServerless(id, result)
    \/ calls < ExportResultCalls /\ \E id \in 1..(Len(pairings) + 1), result \in RequestResults :
            SetResultExpress(id, result)
    \/ calls < ExportResultCalls /\ \E id \in 1..(Len(pairings) + 1), result \in RequestResults :
            SetResultAuth(id, result)
    \/ calls < ExportResultCalls /\ \E id \in 1..(Len(pairings) + 1), result \in RequestResults :
            SetResultNetlify(id, result)
    \/ \E stored \in StorageOrders(players) : Export(stored)

SpecExport == InitExport /\ [][NextExport]_vars

\* ==== tournaments whose players have keys of one and of two digits ========
\* players.id is a SERIAL column of the one players table of all
\* tournaments: the keys of a tournament's players are any distinct
\* numbers, in any relation to the names
InitIds ==
    /\ app \in Apps
    /\ roster \in 0..IdPlayers
    /\ player_ids \in {f \in [players -> PlayerIds] : \A p \in players, q \in players : f[p] = f[q] => p = q}
    /\ points = [p \in players |-> 0]
    /\ had_bye = [p \in players |-> FALSE]
    /\ pairings = <<>>
    /\ generated = 0
    /\ calls = 0
    /\ last = [op |-> "init", status |-> 0, id |-> NULL, old |-> NoResult, result |-> NoResult,
               step |-> 0, standings |-> <<>>]
    /\ inflight = [c \in Clients |-> Idle]

\* the requests of Next
NextIds ==
    \/ generated < IdRounds /\ GenerateNextRoundServerless
    \/ generated < IdRounds /\ GenerateNextRoundExpress
    \/ generated < IdRounds /\ GenerateNextRoundAuth
    \/ generated < IdRounds /\ GenerateNextRoundNetlify
    \/ calls < IdResultCalls /\ \E id \in 1..(Len(pairings) + 1), result \in RequestResults :
            SetResultServerless(id, result)
    \/ calls < IdResultCalls /\ \E id \in 1..(Len(pairings) + 1), result \in RequestResults :
            SetResultExpress(id, result)
    \/ calls < IdResultCalls /\ \E id \in 1..(Len(pairings) + 1), result \in RequestResults :
            SetResultAuth(id, result)
    \/ calls < IdResultCalls /\ \E id \in 1..(Len(pairings) + 1), result \in RequestResults :
            SetResultNetlify(id, result)

SpecIds == InitIds /\ [][NextIds]_vars

\* whether the generate handler of the deployed revision takes a and b to
\* have met: havePlayed (part_000:252), pastOpponents (part_000:576), the
\* query of api.js:495, and the ids that getAvoidPaired returns (api.js:179)
haveMet(rows, a, b) ==
    CASE app = "serverless" -> havePlayed(rows, a, b)
      [] app = "express" -> b \in pastOpponents(rows, a)
      [] app = "netlify" -> prevGame(rows, a, b) # {}
      [] app = "auth" -> playerId(b) \in Range(getAvoidPaired(History(rows), playerId(a)))

\* ==== a full rotation of the bye ==========================================
\* tournaments with an odd number of players
InitByes ==
    /\ app \in Apps
    /\ roster \in {n \in 1..ByePlayers : n % 2 = 1}
    /\ player_ids = [p \in players |-> p]
    /\ points = [p \in players |-> 0]
    /\ had_bye = [p \in players |-> FALSE]
    /\ pairings = <<>>
    /\ generated = 0
    /\ calls = 0
    /\ last = [op |-> "init", status |-> 0, id |-> NULL, old |-> NoResult, result |-> NoResult,
               step |-> 0, standings |-> <<>>]
    /\ inflight = [c \in Clients |-> Idle]

\* the requests of Next, for one round more than the roster has players
NextByes ==
    \/ generated < ByeRounds /\ GenerateNextRoundServerless
    \/ generated < ByeRounds /\ GenerateNextRoundExpress
    \/ generated < ByeRounds /\ GenerateNextRoundAuth
    \/ generated < ByeRounds /\ GenerateNextRoundNetlify
    \/ calls < ByeResultCalls /\ \E id \in 1..(Len(pairings) + 1), result \in RequestResults :
            SetResultServerless(id, result)
    \/ calls < ByeResultCalls /\ \E id \in 1..(Len(pairings) + 1), result \in RequestResults :
            SetResultExpress(id, result)
    \/ calls < ByeResultCalls /\ \E id \in 1..(Len(pairings) + 1), result \in RequestResults :
            SetResultAuth(id, result)
    \/ calls < ByeResultCalls /\ \E id \in 1..(Len(pairings) + 1), result \in RequestResults :
            SetResultNetlify(id, result)

SpecByes == InitByes /\ [][NextByes]_vars

\* ---- the unit of work of the latest request --------------------------------
\* what the handler did with its connection: pool.connect(), BEGIN, COMMIT
\* or ROLLBACK, client.release()
Committed == <<"connect", "BEGIN", "COMMIT", "release">>
RolledBack == <<"connect", "BEGIN", "ROLLBACK", "release">>
\* return inside try after BEGIN: only the finally block runs
Returned == <<"connect", "BEGIN", "release">>

UnitOfWork ==
    IF last.op = "generate"
    THEN CASE last.status = 201 -> Committed
           [] last.status = 400 -> Returned
           [] last.status = 500 -> RolledBack
    ELSE IF last.op = "setResult"
    THEN CASE last.status = 200 -> Committed
           [] last.status = 400 -> <<>>
           [] last.status = 404 -> Returned
           [] last.status = 500 -> RolledBack
    ELSE <<>>

\* ==== properties ===========================================================
\* half points a stored result is worth to player p of the pairing
WorthTo(row, p) ==
    (IF row.white_id = p
     THEN (IF row.result = WHITE_WIN THEN 2 ELSE IF row.result = DRAW THEN 1 ELSE 0)
     ELSE 0)
    + (IF row.black_id = p
       THEN (IF row.result = BLACK_WIN THEN 2 ELSE IF row.result = DRAW THEN 1 ELSE 0)
       ELSE 0)

RECURSIVE Ledger(_, _)
Ledger(rows, p) == IF rows = <<>> THEN 0 ELSE WorthTo(Head(rows), p) + Ledger(Tail(rows), p)

\* C1: every player's points are the sum, over all pairings the player is
\* in, of what the pairing's currently stored result is worth to the player
\* (1-0: one point to white, 0-1: one point to black, 0.5-0.5: half a point
\* to each, pending: nothing; a bye is stored as 1-0 without black)
C1_LedgerConsistency == \A p \in players : points[p] = Ledger(pairings, p)

\* a stored result of a game has just been corrected, in a tournament with a bye
C1_Witness ==
    /\ last.op = "setResult" /\ last.status = 200 /\ Target(pairings, last.id) = "game"
    /\ last.old \in ValidResults /\ last.result \in ValidResults /\ last.old # last.result
    /\ \E i \in DOMAIN pairings : IsBye(pairings[i])

\* C2: on every game and for all results A, B of the three, a set-result
\* request with A followed by one with B leaves the points and the pairings
\* that a single request with B on the original state leaves
C2_SecondResultWins ==
    [][(SetResultStep /\ last'.status = 200 /\ last'.result \in ValidResults
            /\ Target(pairings, last'.id) = "game")
        => \A B \in ValidResults :
               LET twice == setResult(points', pairings', last'.id, B)
                   once == setResult(points, pairings, last'.id, B)
               IN  twice.points = once.points /\ twice.pairings = once.pairings]_vars

\* a game holds a result that replaced another one
C2_Witness ==
    /\ last.op = "setResult" /\ last.status = 200 /\ Target(pairings, last.id) = "game"
    /\ last.old \in ValidResults /\ last.result \in ValidResults /\ last.old # last.result

\* C3: a set-result request that asks for the result the pairing already
\* holds (one of the three) changes no player's points and no pairing
C3_SameResultNoChange ==
    [][(SetResultStep /\ last'.status = 200 /\ last'.result \in ValidResults
            /\ last'.old = last'.result)
        => (points' = points /\ pairings' = pairings)]_vars

\* such a request has just been served
C3_Witness ==
    /\ last.op = "setResult" /\ last.status = 200
    /\ last.result \in ValidResults /\ last.old = last.result /\ Target(pairings, last.id) = "game"
\* ---- generated rounds ----------------------------------------------------
\* the players of the inserted rows 1..k
PairedBy(rows, k) ==
    UNION {{rows[j].white_id, rows[j].black_id} \ {NULL} : j \in 1..k}

\* a and b were white and black of an earlier pairing, in either colour
Met(rows, a, b) ==
    \E i \in DOMAIN rows : {rows[i].white_id, rows[i].black_id} = {a, b}

\* p is white of an earlier bye
HadBye(rows, p) == \E i \in DOMAIN rows : IsBye(rows[i]) /\ rows[i].white_id = p

\* every roster player is in exactly one inserted row; roster \div 2 games
\* and one bye exactly when the roster is odd
RoundComplete ==
    /\ \A p \in players :
          Cardinality({k \in DOMAIN NewRows : p \in {NewRows[k].white_id, NewRows[k].black_id}}) = 1
    /\ Cardinality({k \in DOMAIN NewRows : IsGame(NewRows[k])}) = roster \div 2
    /\ Cardinality({k \in DOMAIN NewRows : IsBye(NewRows[k])}) = roster % 2

\* C4: every round generated for a roster of at least two players, whatever
\* the history, has every roster player in exactly one of its pairings
C4_EveryPlayerPairedOnce == [][(GenerateStep /\ roster >= 2) => RoundComplete]_vars

\* C5: the first round of a tournament of at least two players has
\* roster \div 2 games, one bye exactly when the roster is odd, and every
\* player in exactly one pairing
C5_FirstRoundComplete ==
    [][(GenerateStep /\ roster >= 2 /\ pairings = <<>>) => RoundComplete]_vars

\* the first round of five players has just been generated
C5_Witness ==
    /\ last.op = "generate" /\ generated = 1 /\ roster = 5
    /\ Len(pairings) = 3 /\ \A i \in DOMAIN pairings : pairings[i].round_number = 1

\* C6: two players who have met are paired again only if, when the pair was
\* formed, the higher-ranked of the two (points descending, then name
\* ascending, at generation time) had met every other still-unpaired player
C6_RematchOnlyWithoutFreshCandidate ==
    [][GenerateStep =>
        \A k \in DOMAIN NewRows :
            LET w == NewRows[k].white_id
                b == NewRows[k].black_id
                higher == IF Before(points, w, b) THEN w ELSE b
                unpaired == (players \ PairedBy(NewRows, k - 1)) \ {w, b}
            IN  (IsGame(NewRows[k]) /\ Met(pairings, w, b))
                    => \A c \in unpaired : Met(pairings, higher, c)]_vars

\* S can be split into pairs of players who have not met
RECURSIVE RematchFreeSplit(_, _)
RematchFreeSplit(rows, S) ==
    IF S = {} THEN TRUE
    ELSE LET x == Min(S)
         IN  \E y \in S \ {x} : ~Met(rows, x, y) /\ RematchFreeSplit(rows, S \ {x, y})

C8_ByeToFreshPlayerFirst ==
    [][GenerateStep =>
        \A k \in DOMAIN NewRows :
            (IsBye(NewRows[k]) /\ HadBye(pairings, NewRows[k].white_id))
                => \A q \in players : HadBye(pairings, q)]_vars

\* a bye has just been awarded in a tournament where another player had one
C8_Witness ==
    /\ last.op = "generate" /\ last.status = 201
    /\ \E i \in DOMAIN pairings, j \in DOMAIN pairings :
          /\ i < j /\ IsBye(pairings[i]) /\ IsBye(pairings[j])
          /\ pairings[i].white_id # pairings[j].white_id
          /\ pairings[j].round_number = NextRound(pairings) - 1

\* the last player of S in the order points descending, name ascending
LastRanked(S, pts) == SortPlayers(S, pts)[Cardinality(S)]

\* C9: on an odd roster the bye goes to the last player, in the order points
\* descending then name ascending, among those who have not had a bye, and
\* to the last player of that order when every player has had one
C9_ByeToLastRanked ==
    [][(GenerateStep /\ roster % 2 = 1) =>
        LET fresh == {p \in players : ~HadBye(pairings, p)}
            due == IF fresh # {} THEN LastRanked(fresh, points) ELSE LastRanked(players, points)
        IN  \E k \in DOMAIN NewRows : IsBye(NewRows[k]) /\ NewRows[k].white_id = due]_vars

\* C10: every pairing without a black player holds the result 1-0
C10_ByeIsWhiteWin ==
    \A i \in DOMAIN pairings : IsBye(pairings[i]) => pairings[i].result = WHITE_WIN

\* ---- rejected requests ---------------------------------------------------
\* the request is answered with an error and nothing stored has changed
Refused == last'.status # 200 /\ points' = points /\ pairings' = pairings

\* C11: a set-result request that addresses a bye is refused, whatever the
\* result asked for, and leaves the bye's result and all points unchanged
C11_ByeResultImmutable ==
    [][(SetResultStep /\ Target(pairings, last'.id) = "bye") => Refused]_vars

\* C12: a set-result request whose result is none of 1-0, 0-1, 0.5-0.5 is
\* refused with the status of an invalid request and changes no points and
\* no pairing
C12_InvalidResultRejected ==
    [][(SetResultStep /\ last'.result \notin ValidResults /\ last'.id \in DOMAIN pairings)
        => (Refused /\ last'.status = 400)]_vars

\* C13: every stored result is 1-0, 0-1, 0.5-0.5 or unset
C13_StoredResultsValid ==
    \A i \in DOMAIN pairings : pairings[i].result \in ValidResults \cup {NoResult}

\* C14: a set-result request (with one of the three results) for an id that
\* no pairing has is answered not-found, a status an infrastructure failure
\* does not give, and changes no points and no pairing
C14_PairingNotFound ==
    [][(SetResultStep /\ last'.result \in ValidResults /\ last'.id \notin DOMAIN pairings)
        => (Refused /\ last'.status = 404)]_vars

\* ---- units of work -------------------------------------------------------
Count(events, e) == Cardinality({i \in DOMAIN events : events[i] = e})

\* C15: the latest request, if it issued BEGIN, issued exactly one COMMIT or
\* ROLLBACK after it and before releasing the connection, and it released
\* the connection exactly once
C15_UnitOfWorkEnded ==
    LET u == UnitOfWork
    IN  /\ Count(u, "connect") = Count(u, "release")
        /\ Count(u, "release") <= 1
        /\ \A i \in DOMAIN u : u[i] = "BEGIN" =>
              \E j \in DOMAIN u, k \in DOMAIN u :
                 /\ i < j /\ j < k /\ u[j] \in {"COMMIT", "ROLLBACK"} /\ u[k] = "release"
                 /\ Count(u, "COMMIT") + Count(u, "ROLLBACK") = 1

\* C16: a request in which a storage operation fails leaves the points, the
\* bye flags and the pairings that were committed before it
C16_FailureRollsBack ==
    [][last'.status = 500 =>
        (points' = points /\ had_bye' = had_bye /\ pairings' = pairings)]_vars

\* a generate request failed after the bye point was written and before the
\* bye row was; a set-result request failed after the old result was reverted
C16_Witness ==
    \/ /\ last.op = "generate" /\ last.status = 500 /\ last.step = 1
       /\ roster % 2 = 1 /\ app = "serverless"
    \/ /\ last.op = "setResult" /\ last.status = 500 /\ last.step = 1
       /\ last.old \in ValidResults

\* ---- requests served at the same time -------------------------------------
\* C17: once no request is being served, every player's points are what the
\* stored results alone are worth (as some serial order of the set-result
\* requests leaves them), and no player's points are negative
C17_ConcurrentResultsSerializable ==
    Quiescent => \A p \in players : points[p] = Ledger(pairings, p) /\ points[p] >= 0

\* C18: no two pairings of the same round share a player, whatever the
\* interleaving of generate requests (so no two requests write the same
\* round, and no player has two pairings or two byes in a round)
C18_ConcurrentRoundsDisjoint ==
    \A i \in DOMAIN pairings, j \in DOMAIN pairings :
        (i < j /\ pairings[i].round_number = pairings[j].round_number)
            => ({pairings[i].white_id, pairings[i].black_id}
                  \cap {pairings[j].white_id, pairings[j].black_id}) \subseteq {NULL}

\* ---- round numbers and byes ------------------------------------------------
RoundsInUse(rows) == {rows[i].round_number : i \in DOMAIN rows}

\* C19: the rows a generate request inserts all carry the round number
\* 1 + the largest one stored before (1 if none), the stored rows stay, and
\* the round numbers in use are 1..k without a gap
C19_RoundNumbering ==
    [][GenerateStep =>
        LET used == RoundsInUse(pairings)
            r == IF used = {} THEN 1 ELSE 1 + Max(used)
        IN  /\ SubSeq(pairings', 1, Len(pairings)) = pairings
            /\ \A k \in DOMAIN NewRows : NewRows[k].round_number = r
            /\ RoundsInUse(pairings') = 1..Cardinality(RoundsInUse(pairings'))]_vars

\* a second round has just been generated after a first one
C19_Witness ==
    /\ last.op = "generate" /\ last.status = 201 /\ roster >= 3
    /\ RoundsInUse(pairings) = {1, 2}

\* C20: a generate request that awards a bye inserts a row of the new round
\* with the recipient as white, no black player and result 1-0, raises the
\* recipient's points by exactly one point and leaves the recipient's bye
\* flag set
C20_ByeAwarded ==
    [][GenerateStep =>
        \A k \in DOMAIN NewRows :
            IsBye(NewRows[k]) =>
                LET w == NewRows[k].white_id
                IN  /\ w \in players
                    /\ NewRows[k].result = WHITE_WIN
                    /\ \A i \in DOMAIN pairings : pairings[i].round_number < NewRows[k].round_number
                    /\ points'[w] = points[w] + 2
                    /\ had_bye'[w]]_vars

\* ---- the worked example --------------------------------------------------
\* C21: with five players P1..P5, all at 0 points and no pairings, a generate
\* request gives the bye to P5, who then has one point, and pairs P1..P4 in
\* two pending games, one of them P1 (white) against P2 (black); a DRAW on
\* that game leaves P1 and P2 at half a point each, and a WHITE_WIN on it
\* after that leaves P1 at one point and P2 at none
C21_WorkedExample ==
    [][/\ (GenerateStep /\ roster = 5 /\ pairings = <<>>) =>
            /\ \E k \in DOMAIN NewRows : IsBye(NewRows[k]) /\ NewRows[k].white_id = 5
            /\ points' = [p \in players |-> IF p = 5 THEN 2 ELSE 0]
            /\ \E k \in DOMAIN NewRows : NewRows[k] = Pairing(1, 1, 2, NoResult)
            /\ Cardinality({k \in DOMAIN NewRows :
                              IsGame(NewRows[k]) /\ NewRows[k].result = NoResult}) = 2
            /\ UNION {{NewRows[k].white_id, NewRows[k].black_id} :
                        k \in {j \in DOMAIN NewRows : IsGame(NewRows[j])}} = 1..4
       /\ (SetResultStep /\ roster = 5 /\ generated = 1 /\ calls = 0
             /\ last'.id \in DOMAIN pairings /\ pairings[last'.id] = Pairing(1, 1, 2, NoResult)
             /\ last'.result = DRAW)
            => (points'[1] = 1 /\ points'[2] = 1)
       /\ (SetResultStep /\ roster = 5 /\ generated = 1 /\ calls = 1
             /\ last'.id \in DOMAIN pairings /\ pairings[last'.id] = Pairing(1, 1, 2, DRAW)
             /\ last'.result = WHITE_WIN)
            => (points'[1] = 2 /\ points'[2] = 0)]_vars

\* ---- the order of the stored rows -------------------------------------------
\* C22: on the same points, names, bye flags and pairings, the generate
\* handler leaves the same points, bye flags and pairings (the same bye and
\* the same games, white and black, in the same order) whatever the order
\* in which the storage returns the player rows
C22_GenerateDeterministic ==
    Cardinality({generateNextRound(stored, points, had_bye, pairings) :
                    stored \in StorageOrders(players)}) = 1

\* a second round has just been generated for three or more players, one
\* game of the first round holding a result
C22_Witness ==
    /\ last.op = "generate" /\ last.status = 201 /\ generated = 2 /\ roster >= 3
    /\ \E i \in DOMAIN pairings :
          IsGame(pairings[i]) /\ pairings[i].round_number = 1 /\ pairings[i].result \in ValidResults
    /\ \E p \in players, q \in players : points[p] # points[q]

\* ---- small rosters ---------------------------------------------------------
\* C23: a generate request on a roster of no player or one player creates no
\* pairing (no bye for a sole player), changes no player's points and no bye
\* flag, and does not advance the round
C23_SmallRosterNoOp ==
    [][(GenerateStep /\ roster < 2)
        => /\ pairings' = pairings
           /\ points' = points
           /\ had_bye' = had_bye
           /\ NextRound(pairings') = NextRound(pairings)]_vars

\* ---- points ------------------------------------------------------------------
\* C24: in every reachable state every player's points are a non-negative
\* multiple of one half (points are held in half points)
C24_PointsHalfMultiples == \A p \in players : points[p] \in Nat

\* a player stands at half a point after a result was replaced by a draw
C24_Witness ==
    /\ last.op = "setResult" /\ last.status = 200 /\ last.old \in {WHITE_WIN, BLACK_WIN}
    /\ last.result = DRAW /\ Target(pairings, last.id) = "game"
    /\ \E p \in players : points[p] = 1

\* ---- effect and frame of a result request ------------------------------------
\* C25: a set-result request with one of the three results on a pending game
\* is accepted, adds one point to white for 1-0, one point to black for 0-1
\* and half a point to each for 0.5-0.5, nothing else, and stores the result
\* on the pairing
C25_FirstResultAddsMappedPoints ==
    [][(SetResultStep /\ last'.result \in ValidResults
            /\ Target(pairings, last'.id) = "game" /\ pairings[last'.id].result = NoResult)
        => LET row == pairings[last'.id]
               toWhite == CASE last'.result = WHITE_WIN -> 2
                            [] last'.result = BLACK_WIN -> 0
                            [] last'.result = DRAW -> 1
               toBlack == CASE last'.result = WHITE_WIN -> 0
                            [] last'.result = BLACK_WIN -> 2
                            [] last'.result = DRAW -> 1
           IN  /\ last'.status = 200
               /\ points' = [p \in players |->
                                IF p = row.white_id THEN points[p] + toWhite
                                ELSE IF p = row.black_id THEN points[p] + toBlack
                                ELSE points[p]]
               /\ pairings'[last'.id].result = last'.result]_vars

\* a pending game has just received its first result, a draw
C25_Witness ==
    /\ last.op = "setResult" /\ last.status = 200 /\ last.old = NoResult
    /\ last.result = DRAW /\ Target(pairings, last.id) = "game"

\* C26: a set-result request changes nothing but the result of the addressed
\* pairing and the points of that pairing's white and black player: the
\* pairing's players and round number, every other pairing, every other
\* player's points and all bye flags stay
C26_SetResultFrame ==
    [][SetResultStep
        => /\ had_bye' = had_bye
           /\ roster' = roster
           /\ Len(pairings') = Len(pairings)
           /\ \A i \in DOMAIN pairings :
                 /\ pairings'[i].white_id = pairings[i].white_id
                 /\ pairings'[i].black_id = pairings[i].black_id
                 /\ pairings'[i].round_number = pairings[i].round_number
                 /\ i # last'.id => pairings'[i] = pairings[i]
           /\ \A p \in players :
                 (last'.id \notin DOMAIN pairings
                    \/ p \notin {pairings[last'.id].white_id, pairings[last'.id].black_id})
                 => points'[p] = points[p]]_vars

\* a result was stored on one game of a round that has another game and a bye
C26_Witness ==
    /\ last.op = "setResult" /\ last.status = 200 /\ Target(pairings, last.id) = "game"
    /\ last.result \in ValidResults
    /\ \E i \in DOMAIN pairings : i # last.id /\ IsGame(pairings[i])
    /\ \E p \in players : had_bye[p]

\* ---- frame of a generate request ---------------------------------------------
\* C27: a generate request leaves every stored pairing (players, round,
\* result) as it was, leaves the points and the bye flag of every player who
\* does not receive the bye of the new round as they were, and inserts every
\* game of the new round with its result unset
C27_GenerateFrame ==
    [][GenerateStep
        => /\ roster' = roster
           /\ Len(pairings') >= Len(pairings)
           /\ SubSeq(pairings', 1, Len(pairings)) = pairings
           /\ \A p \in players :
                 (\A k \in DOMAIN NewRows : ~(IsBye(NewRows[k]) /\ NewRows[k].white_id = p))
                    => (points'[p] = points[p] /\ had_bye'[p] = had_bye[p])
           /\ \A k \in DOMAIN NewRows : IsGame(NewRows[k]) => NewRows[k].result = NoResult]_vars

\* a second round with a bye and a game has just been generated, a game of
\* the first round holding a result
C27_Witness ==
    /\ last.op = "generate" /\ last.status = 201 /\ generated = 2 /\ roster >= 3
    /\ \E i \in DOMAIN pairings :
          IsGame(pairings[i]) /\ pairings[i].round_number = 1 /\ pairings[i].result \in ValidResults
    /\ \E i \in DOMAIN pairings, j \in DOMAIN pairings :
          /\ pairings[i].round_number = 2 /\ pairings[j].round_number = 2
          /\ IsBye(pairings[i]) /\ IsGame(pairings[j]) /\ pairings[j].result = NoResult

\* ---- standings ---------------------------------------------------------------
\* half points of the opponents of p, over the games p is in
RECURSIVE OpponentPoints(_, _, _)
OpponentPoints(rows, pts, p) ==
    IF rows = <<>> THEN 0
    ELSE (IF IsGame(Head(rows)) /\ Head(rows).white_id = p THEN pts[Head(rows).black_id]
          ELSE IF IsGame(Head(rows)) /\ Head(rows).black_id = p THEN pts[Head(rows).white_id]
          ELSE 0)
         + OpponentPoints(Tail(rows), pts, p)

\* the games p is in
GamesPlayed(rows, p) ==
    Cardinality({i \in DOMAIN rows : IsGame(rows[i]) /\ p \in {rows[i].white_id, rows[i].black_id}})

\* C28: the exported standings have one row for every player, with the
\* player's points, a tiebreak that is the sum of the current points of the
\* opponents over all games the player is in (an opponent met twice counts
\* twice, a bye adds nothing) and the number of those games (points and
\* tiebreak are sent with one decimal: five tenths for each half point)
C28_TiebreakIsOpponentPoints ==
    last.op = "export" =>
        /\ Len(last.standings) = roster
        /\ \A p \in players : \E k \in DOMAIN last.standings :
              /\ last.standings[k].Nombre = name(p)
              /\ last.standings[k].Puntos = 5 * points[p]
              /\ last.standings[k].Buchholz = 5 * OpponentPoints(pairings, points, p)
              /\ last.standings[k].Partidas = GamesPlayed(pairings, p)

\* standings exported after two players met twice and one of the games was
\* won: the loser's tiebreak is twice the winner's point
C28_Witness ==
    /\ last.op = "export" /\ roster = 2 /\ Len(pairings) = 2
    /\ \E k \in DOMAIN last.standings :
          last.standings[k].Partidas = 2 /\ last.standings[k].Buchholz = 20

\* C29: the exported standings are ordered by points descending, then
\* tiebreak descending, then name ascending, whatever the order in which
\* the storage returned the player rows
C29_StandingsRanked ==
    last.op = "export" =>
        \A i \in DOMAIN last.standings, j \in DOMAIN last.standings :
            i < j =>
                LET a == last.standings[i]
                    b == last.standings[j]
                IN  \/ a.Puntos > b.Puntos
                    \/ a.Puntos = b.Puntos /\ a.Buchholz > b.Buchholz
                    \/ a.Puntos = b.Puntos /\ a.Buchholz = b.Buchholz /\ a.Nombre < b.Nombre

\* ---- unavoidable rematches ---------------------------------------------------
\* C30: a generate request on a roster of at least two in which all players
\* have the same points and every two players have met still pairs everyone:
\* every player is in exactly one new pairing, roster \div 2 of them are
\* games, and every game is a rematch
C30_AllMetStillPaired ==
    [][(GenerateStep /\ roster >= 2
            /\ \A p \in players, q \in players :
                  points[p] = points[q] /\ (p # q => Met(pairings, p, q)))
        => /\ RoundComplete
           /\ \A k \in DOMAIN NewRows :
                 IsGame(NewRows[k]) => Met(pairings, NewRows[k].white_id, NewRows[k].black_id)]_vars

\* ---- the order of the pairing walk ---------------------------------------------
\* the first player of S in the order points descending, name ascending
FirstRanked(S, pts) == SortPlayers(S, pts)[1]

\* the players no inserted row before row k holds, the bye recipient of the
\* round left out
Unpaired(rows, k) ==
    (players \ PairedBy(rows, k - 1)) \ {rows[j].white_id : j \in {i \in DOMAIN rows : IsBye(rows[i])}}

\* C31: the games of a generated round follow the canonical order (points
\* descending, then name ascending, as the round is generated), also in the
\* round in which every player has had a bye: white of each game is the
\* highest-ranked player still unpaired, black is the highest-ranked other
\* unpaired player who has not met white, or the highest-ranked other
\* unpaired player if all of them have met white; so white precedes black
C31_WalkInCanonicalOrder ==
    [][GenerateStep =>
        \A k \in DOMAIN NewRows :
            IsGame(NewRows[k]) =>
                LET w == NewRows[k].white_id
                    b == NewRows[k].black_id
                    rest == Unpaired(NewRows, k) \ {w}
                    fresh == {c \in rest : ~Met(pairings, w, c)}
                IN  /\ w = FirstRanked(Unpaired(NewRows, k), points)
                    /\ b = FirstRanked(IF fresh # {} THEN fresh ELSE rest, points)
                    /\ Before(points, w, b)]_vars

\* ---- result requests on different pairings ---------------------------------
\* C32: a set-result request on a stored pairing that is served while at
\* most one other request, on a different pairing, is being served ends
\* with exactly the effect it has when served alone on the stored state (its
\* result is stored and its points are added to what is stored, also for a
\* player of both pairings), and the two requests served alone in either
\* order leave the same points and the same pairings
C32_ResultsOnDifferentPairingsCommute ==
    [][\A c \in Clients :
          (inflight[c].op = "setResult" /\ inflight'[c] = Idle
                /\ pairings[inflight[c].id] = inflight[c].row
                /\ inflight[Other(c)].id # inflight[c].id)
          => LET r == inflight[c]
                 o == inflight[Other(c)]
                 alone == setResult(points, pairings, r.id, r.result)
             IN  /\ last'.status = 200
                 /\ points' = alone.points
                 /\ pairings' = alone.pairings
                 /\ (o.op = "setResult" /\ o.id # r.id /\ pairings[o.id] = o.row)
                       => LET second == setResult(alone.points, alone.pairings, o.id, o.result)
                              first == setResult(points, pairings, o.id, o.result)
                              swapped == setResult(first.points, first.pairings, r.id, r.result)
                          IN  second.points = swapped.points /\ second.pairings = swapped.pairings]_vars

\* ---- the met relation ------------------------------------------------------
\* C33: the generate handler takes two players to have met exactly when some
\* stored pairing of any round has the two of them as white and black, in
\* either colour; a bye makes its player met with nobody, and the result of
\* a pairing, set or pending, plays no role
C33_MetIffEarlierGame ==
    \A a \in players, b \in players :
        a # b => (haveMet(pairings, a, b) <=> Met(pairings, a, b))

\* ---- the avoid list of the library-based generator ----------------------------
\* C36: in the first router of api.js, for every player p the ids that
\* getAvoidPaired(p) returns are exactly the ids of the players who are
\* white or black of a stored two-player pairing with p: no id of a player
\* p has not faced, and nothing (no 0, no other value) for a bye of p
C36_AvoidListIsOpponents ==
    app = "auth" =>
        \A p \in players :
            Range(getAvoidPaired(History(pairings), playerId(p)))
                = {playerId(q) : q \in {o \in players : Met(pairings, p, o)}}

\* ---- the bye flag and the stored byes ------------------------------------------
\* C34: in every reachable state a player's stored bye flag is set exactly
\* when some stored pairing without black player has the player as white (so
\* the flag and the stored pairings name the same players as bye recipients)
C34_ByeFlagMatchesHistory ==
    \A p \in players : had_bye[p] <=> HadBye(pairings, p)

\* ---- rotation of the bye -------------------------------------------------------
\* the stored byes, and those of player p
Byes(rows) == {i \in DOMAIN rows : IsBye(rows[i])}
ByesOf(rows, p) == {i \in Byes(rows) : rows[i].white_id = p}

\* C35: with a roster of odd size n of three or more, every generated round
\* has one bye, a player gets a second bye only in a round after every player
\* has had one, and so after the first n rounds every player has had exactly
\* one bye, whatever results were entered in between
C35_ByeRotation ==
    (roster % 2 = 1 /\ roster >= 3) =>
        /\ Cardinality(Byes(pairings)) = generated
        /\ \A j \in Byes(pairings) :
              (\E i \in ByesOf(pairings, pairings[j].white_id) : i < j)
                 => \A q \in players : \E i \in ByesOf(pairings, q) : i < j
        /\ generated <= roster =>
              \A p \in players : Cardinality(ByesOf(pairings, p)) <= 1
        /\ generated = roster =>
              \A p \in players : Cardinality(ByesOf(pairings, p)) = 1

\* a fourth round has just been generated for three players, after each of
\* them had one bye in the first three rounds and a result was entered
C35_Witness ==
    /\ last.op = "generate" /\ last.status = 201 /\ roster = 3 /\ generated = 4 /\ calls >= 1
    /\ \A p \in players : Cardinality({i \in ByesOf(pairings, p) : pairings[i].round_number <= 3}) = 1
    /\ \E i \in DOMAIN pairings : IsGame(pairings[i]) /\ pairings[i].result \in ValidResults
====
